---- MODULE Spec2Model ----
(***************************************************************************)
(* Model of solitary.Sandbox (src/src/solitary/sandbox.py): one session    *)
(* object holding an optional runtime client and an optional container     *)
(* handle, driven by a single caller.  The container runtime (docker) is   *)
(* the environment: every call the session makes to it may succeed or      *)
(* fail, and the outcome is chosen nondeterministically in each action.    *)
(*                                                                         *)
(* Time is counted in whole seconds.  Elapsed wall-clock readings are      *)
(* taken as non-negative (the clock is not stepped backwards between the   *)
(* two time.time() readings of one call).  client.close() is taken not to  *)
(* raise, as in the runtime interface of spec section 6, except in the     *)
(* specification SpecCloseFails, which adds the calls in which it raises.  *)
(* SpecRace runs two callers through execute() statement by statement;     *)
(* SpecModels and SpecConfig exercise the result model and the             *)
(* configuration on their own.                                             *)
(***************************************************************************)
EXTENDS Integers, Sequences, FiniteSets, TLC

(* ------------------------------ bounds -------------------------------- *)
MaxClients == 2
MaxHandles == 2
MaxElapsed == 2
MaxCount == 2

(* --------------------------- Python values ---------------------------- *)
\* Optional[T]: None is the empty tuple, a supplied value v is <<v>>.
None == << >>
Some(v) == <<v>>

\* bytes objects returned by the runtime: <<"bytes", payload>>.
Bytes(s) == <<"bytes", s>>
EmptyBytes == Bytes("")
BadBytes == Bytes("\\xff")

\* `x or d` for Optional[str]: None and "" are falsy.
OrStr(x, d) == IF x = None \/ x[1] = "" THEN d ELSE x[1]

\* `x or d` for Optional[int]: None and 0 are falsy.
OrInt(x, d) == IF x = None \/ x[1] = 0 THEN d ELSE x[1]

\* truthiness of Optional[bytes] in `b.decode() if b else ""`.
TruthyBytes(b) == b # None /\ b[1] # EmptyBytes

\* bytes.decode(): UTF-8 text of the payload; BadBytes is not valid UTF-8.
CanDecode(b) == ~TruthyBytes(b) \/ b[1] # BadBytes
Decode(b) == IF TruthyBytes(b) THEN b[1][2] ELSE ""
DecodeErrorMsg == "'utf-8' codec can't decode byte 0xff"

\* " ".join(cmd)
RECURSIVE Join(_)
Join(cmd) ==
    IF Len(cmd) = 0 THEN ""
    ELSE IF Len(cmd) = 1 THEN cmd[1]
    ELSE cmd[1] \o " " \o Join(Tail(cmd))

Min(a, b) == IF a < b THEN a ELSE b

(* --------------------------- configuration ---------------------------- *)
DefaultWorkdir == "/workspace"
DefaultShell == "/bin/bash"
SandboxConfig(container_, workdir_, timeout_, shell_) ==
    [container |-> container_, workdir |-> workdir_,
     timeout |-> timeout_, shell |-> shell_]

\* Field(default=30, ge=1, le=3600) of SandboxConfig.timeout.
TimeoutDefault == 30
TimeoutGe == 1
TimeoutLe == 3600
ValidationError == "ValidationError"

\* SandboxConfig(...) with the keyword arguments given (None: omitted):
\* the exception raised, if any, and the object built.
NewSandboxConfig(container_, workdir_, timeout_, shell_) ==
    LET t == IF timeout_ = None THEN TimeoutDefault ELSE timeout_[1]
        valid == /\ container_ # None
                 /\ timeout_ # None => t >= TimeoutGe /\ t <= TimeoutLe
    IN IF valid
       THEN [exc |-> "none",
             config |-> SandboxConfig(
                 container_[1],
                 IF workdir_ = None THEN DefaultWorkdir ELSE workdir_[1],
                 t,
                 IF shell_ = None THEN DefaultShell ELSE shell_[1])]
       ELSE [exc |-> ValidationError, config |-> None]

\* (variant) assignment to a field of a configuration that validates
\* assignments but is not frozen.
__setattr__unfrozen(cfg, field, value) ==
    IF field = "timeout" /\ (value < TimeoutGe \/ value > TimeoutLe)
    THEN [exc |-> ValidationError, config |-> cfg]
    ELSE [exc |-> "none", config |-> [cfg EXCEPT ![field] = value]]

\* Assignment to a field of a constructed (frozen) configuration.
__setattr__(cfg, field, value) ==
    [exc |-> ValidationError, config |-> cfg]

Configs == { SandboxConfig("sandbox", DefaultWorkdir, 1, DefaultShell) }

(* ----------------------------- exceptions ----------------------------- *)
ContainerConnectionError == "ContainerConnectionError"
ContainerNotFoundError == "ContainerNotFoundError"
TypedErrors == {ContainerConnectionError, ContainerNotFoundError}
NoExc == "none"

(* ---------------------------- result model ---------------------------- *)
ExecutionResult(stdout_, stderr_, exit_code_, execution_time_, timeout_occurred_, container_id_, command_) ==
    [stdout |-> stdout_, stderr |-> stderr_, exit_code |-> exit_code_,
     execution_time |-> execution_time_,
     timeout_occurred |-> timeout_occurred_,
     container_id |-> container_id_, command |-> command_]
NullResult == ExecutionResult("", "", 0, 0, FALSE, "", "")

\* (variant) success that looks at the exit code only.
success_exit_only(res) == res.exit_code = 0

success(res) == res.exit_code = 0 /\ ~res.timeout_occurred

\* ResultType and ResultValue.
OUTPUT == "output"
ERROR == "error"
ResultValue(type_, content_) == [type |-> type_, content |-> content_]

\* (variant) return_value that looks at stderr before stdout.
return_value_stderr_first(res) ==
    IF res.stderr # ""
    THEN ResultValue(ERROR, res.stderr)
    ELSE IF success(res) /\ res.stdout # ""
    THEN ResultValue(OUTPUT, res.stdout)
    ELSE IF ~success(res)
    THEN ResultValue(ERROR, "Command failed with exit code "
                                \o ToString(res.exit_code))
    ELSE ResultValue(OUTPUT, "")

\* (variant) return_value that takes exit code 0 for success.
return_value_exit_only(res) ==
    IF res.exit_code = 0 /\ res.stdout # ""
    THEN ResultValue(OUTPUT, res.stdout)
    ELSE IF res.stderr # ""
    THEN ResultValue(ERROR, res.stderr)
    ELSE IF res.exit_code # 0
    THEN ResultValue(ERROR, "Command failed with exit code "
                                \o ToString(res.exit_code))
    ELSE ResultValue(OUTPUT, "")

return_value(res) ==
    IF success(res) /\ res.stdout # ""
    THEN ResultValue(OUTPUT, res.stdout)
    ELSE IF res.stderr # ""
    THEN ResultValue(ERROR, res.stderr)
    ELSE IF ~success(res)
    THEN ResultValue(ERROR, "Command failed with exit code "
                                \o ToString(res.exit_code))
    ELSE ResultValue(OUTPUT, "")

ContainerInfo(id_, name_, image_, status_, created_) ==
    [id |-> id_, name |-> name_, image |-> image_, status |-> status_,
     created |-> created_]
NullInfo == ContainerInfo("", "", "", "", "")

\* str.lstrip("/") on the names the runtime reports.
LstripSlash(s) ==
    CASE s = "/sandbox" -> "sandbox"
      [] s = "//sandbox" -> "sandbox"
      [] OTHER -> s

(* ------------------------------- state -------------------------------- *)
VARIABLES
    config,         \* Sandbox.config (frozen)
    client,         \* Sandbox._client: 0 is None, else a client id
    container,      \* Sandbox._container: 0 is None, else a handle id
    open,           \* runtime: clients acquired and not yet closed
    clientSeq,      \* runtime: id of the client handed out last
    handleSeq,      \* runtime: id of the handle handed out last
    handleStale,    \* the handle now held was held when close() last ran
    acqSinceClose,  \* successful client acquisitions since the last close()
    lookSinceClose, \* successful container lookups since the last close()
    scope,          \* "outside", "inside" the with-block, or just "left" it
    last,           \* the last call: operation, arguments and outcome
    threads         \* callers inside execute(): where each one stands

vars == <<config, client, container, open, clientSeq, handleSeq, handleStale,
          acqSinceClose, lookSinceClose, scope, last, threads>>

\* Callers that may be inside execute() at the same time, and a caller
\* that is not inside a call.
Callers == {1, 2}
Idle ==
    [pc |-> "idle", tmp |-> 0, exc |-> "none", found |-> FALSE,
     acqs |-> 0, looks |-> 0]

ClientIds == 1..MaxClients
HandleIds == 1..MaxHandles

\* The runtime hands out a client object distinct from those still open.
FreshClient ==
    LET k == CHOOSE i \in 1..MaxClients :
                 /\ (((clientSeq + i - 1) % MaxClients) + 1) \notin open
                      \/ \A j \in ClientIds : j \in open
                 /\ \A j \in 1..(i - 1) :
                        /\ (((clientSeq + j - 1) % MaxClients) + 1) \in open
                        /\ \E m \in ClientIds : m \notin open
    IN ((clientSeq + k - 1) % MaxClients) + 1

\* containers.get returns a new handle object on every successful lookup.
FreshHandle == (handleSeq % MaxHandles) + 1

\* Container.id of a handle.
ContainerId(h) == "cid-" \o ToString(h)

(* ------------------------ outcome of one call ------------------------- *)
NoEff == [workdir |-> "", timeout |-> 0, shell |-> ""]
Outcome(c, h) ==
    [client |-> c, container |-> h,
     calls |-> << >>,          \* runtime calls issued, in order
     exc |-> NoExc,            \* exception that reached the caller
     acquired |-> FALSE,       \* from_env succeeded in this call
     resolved |-> FALSE,       \* containers.get succeeded in this call
     closed |-> {},            \* clients closed in this call
     closeCalled |-> FALSE,
     hasResult |-> FALSE, result |-> NullResult,
     hasEff |-> FALSE, eff |-> NoEff,
     used |-> 0,               \* handle the call dispatched on / read
     cmd |-> << >>,            \* command dispatched
     reply |-> "none",         \* "raise", "ok" or "undecodable"
     hasRet |-> FALSE, ret |-> FALSE,
     hasInfo |-> FALSE, info |-> NullInfo]

\* r happened, then e (computed from r's client and container).
Then(r, e) ==
    [e EXCEPT !.calls = r.calls \o e.calls,
              !.acquired = r.acquired \/ e.acquired,
              !.resolved = r.resolved \/ e.resolved,
              !.closed = r.closed \cup e.closed,
              !.closeCalled = r.closeCalled \/ e.closeCalled]

(* ------------------------ runtime behaviours -------------------------- *)
FromEnvReplies == {"ok", "fail"}
GetReplies == {"ok", "NotFound", "APIError", "other"}
RawError == "Exception"
AttrsReplies == {"ok", "KeyError"}
ExitCodes == {0, 1}
HealthOut == "health_check\n"
OutBytes == {None, Some(Bytes(HealthOut)), Some(BadBytes)}
ErrBytes == {None, Some(Bytes("err"))}
Elapsed == {0, MaxElapsed}

\* exec_run: raises, or returns an exit code and the two demuxed streams.
\* t1 is the elapsed time read after exec_run returned, t2 the elapsed
\* time read in the exception handler.
ExecRepliesAt(times) ==
    { [kind |-> "raise", msg |-> "boom", exit_code |-> 0, out |-> None,
       err |-> None, t1 |-> t, t2 |-> t] : t \in times }
    \cup
    { [kind |-> "ok", msg |-> "", exit_code |-> x, out |-> o, err |-> e,
       t1 |-> t, t2 |-> t] :
         x \in ExitCodes, o \in OutBytes \ {Some(BadBytes)}, e \in ErrBytes,
         t \in times }
    \cup
    { [kind |-> "ok", msg |-> "", exit_code |-> 0, out |-> Some(BadBytes),
       err |-> None, t1 |-> p[1], t2 |-> p[2]] :
         p \in { q \in times \X times : q[1] <= q[2] } }

ExecReplies == ExecRepliesAt(Elapsed)

NoReply == [kind |-> "raise", msg |-> "boom", exit_code |-> 0, out |-> None,
            err |-> None, t1 |-> 0, t2 |-> 0]

Env(fe, ge, xr, ar, fr) ==
    [from_env |-> fe, get |-> ge, exec |-> xr, attrs |-> ar, file |-> fr]

(* ----------------------------- Sandbox -------------------------------- *)
\* The exception _connect raises for a failed containers.get: NotFound and
\* APIError are wrapped, anything else propagates as it is.
LookupError(ge) ==
    CASE ge = "NotFound" -> ContainerNotFoundError
      [] ge = "APIError" -> ContainerConnectionError
      [] OTHER -> RawError

\* (variant) _connect without its `is None` guards: acquires and resolves
\* on every call.
_connect_always(c, h, env) ==
    IF env.from_env = "fail"
    THEN [Outcome(c, h) EXCEPT !.calls = <<"from_env">>,
                               !.exc = ContainerConnectionError]
    ELSE LET r1 == [Outcome(FreshClient, h) EXCEPT
                       !.calls = <<"from_env">>, !.acquired = TRUE]
         IN IF env.get = "ok"
            THEN [r1 EXCEPT !.container = FreshHandle,
                            !.calls = Append(r1.calls, "containers.get"),
                            !.resolved = TRUE]
            ELSE [r1 EXCEPT !.calls = Append(r1.calls, "containers.get"),
                            !.exc = LookupError(env.get)]

\* (variant) _connect that looks the container up a second time when the
\* first lookup fails.
_connect_retry(c, h, env) ==
    IF c = 0 /\ env.from_env = "fail"
    THEN [Outcome(c, h) EXCEPT !.calls = <<"from_env">>,
                               !.exc = ContainerConnectionError]
    ELSE LET acq == (c = 0)
             c1 == IF acq THEN FreshClient ELSE c
             r1 == [Outcome(c1, h) EXCEPT
                       !.calls = IF acq THEN <<"from_env">> ELSE << >>,
                       !.acquired = acq]
         IN IF h # 0 THEN r1
            ELSE IF env.get = "ok"
            THEN [r1 EXCEPT !.container = FreshHandle,
                            !.calls = Append(r1.calls, "containers.get"),
                            !.resolved = TRUE]
            ELSE [r1 EXCEPT !.calls = r1.calls \o <<"containers.get",
                                                    "containers.get">>,
                            !.exc = LookupError(env.get)]

\* Sandbox._connect on a session holding client c and handle h.
_connect(c, h, env) ==
    IF c = 0 /\ env.from_env = "fail"
    THEN [Outcome(c, h) EXCEPT !.calls = <<"from_env">>,
                               !.exc = ContainerConnectionError]
    ELSE LET acq == (c = 0)
             c1 == IF acq THEN FreshClient ELSE c
             r1 == [Outcome(c1, h) EXCEPT
                       !.calls = IF acq THEN <<"from_env">> ELSE << >>,
                       !.acquired = acq]
         IN IF h # 0 THEN r1
            ELSE IF env.get = "ok"
            THEN [r1 EXCEPT !.container = FreshHandle,
                            !.calls = Append(r1.calls, "containers.get"),
                            !.resolved = TRUE]
            ELSE [r1 EXCEPT !.calls = Append(r1.calls, "containers.get"),
                            !.exc = LookupError(env.get)]

\* (variant) the handler reports the failure with the exit code of an
\* ordinary failed command.
ErrorResult_exit1(msg, execution_time, timeout_occurred, h, cmd) ==
    ExecutionResult("", msg, 1, execution_time, timeout_occurred,
                    ContainerId(h), Join(cmd))

\* The result built in the `except Exception` handler of execute and
\* execute_shell.
ErrorResult(msg, execution_time, timeout_occurred, h, cmd) ==
    ExecutionResult("", msg, -1, execution_time, timeout_occurred,
                    ContainerId(h), Join(cmd))

\* Sandbox.execute
execute(c, h, env, code, workdir, timeout) ==
    LET r == _connect(c, h, env) IN
    IF r.exc # NoExc THEN r
    ELSE
    LET execution_workdir == OrStr(workdir, config.workdir)
        execution_timeout == OrInt(timeout, config.timeout)
        cmd == <<"python3", "-c", code>>
        x == env.exec
        d == [r EXCEPT !.calls = Append(r.calls, "exec_run"),
                       !.used = r.container, !.cmd = cmd,
                       !.hasEff = TRUE,
                       !.eff = [workdir |-> execution_workdir,
                                timeout |-> execution_timeout,
                                shell |-> ""],
                       !.hasResult = TRUE]
    IN IF x.kind = "raise"
       THEN [d EXCEPT !.reply = "raise",
                      !.result = ErrorResult(x.msg, x.t2, FALSE,
                                             r.container, cmd)]
       ELSE LET execution_time == x.t1
                timeout_occurred == execution_time > execution_timeout
            IN IF ~CanDecode(x.out) \/ ~CanDecode(x.err)
               THEN [d EXCEPT !.reply = "undecodable",
                              !.result = ErrorResult(DecodeErrorMsg, x.t2,
                                                     timeout_occurred,
                                                     r.container, cmd)]
               ELSE [d EXCEPT !.reply = "ok",
                              !.result = ExecutionResult(
                                  Decode(x.out), Decode(x.err), x.exit_code,
                                  execution_time, timeout_occurred,
                                  ContainerId(r.container), Join(cmd))]

\* Sandbox.execute_shell
execute_shell(c, h, env, command, workdir, timeout, shell) ==
    LET r == _connect(c, h, env) IN
    IF r.exc # NoExc THEN r
    ELSE
    LET execution_workdir == OrStr(workdir, config.workdir)
        execution_timeout == OrInt(timeout, config.timeout)
        execution_shell == OrStr(shell, config.shell)
        cmd == <<execution_shell, "-c", command>>
        x == env.exec
        d == [r EXCEPT !.calls = Append(r.calls, "exec_run"),
                       !.used = r.container, !.cmd = cmd,
                       !.hasEff = TRUE,
                       !.eff = [workdir |-> execution_workdir,
                                timeout |-> execution_timeout,
                                shell |-> execution_shell],
                       !.hasResult = TRUE]
    IN IF x.kind = "raise"
       THEN [d EXCEPT !.reply = "raise",
                      !.result = ErrorResult(x.msg, x.t2, FALSE,
                                             r.container, cmd)]
       ELSE LET execution_time == x.t1
                timeout_occurred == execution_time > execution_timeout
            IN IF ~CanDecode(x.out) \/ ~CanDecode(x.err)
               THEN [d EXCEPT !.reply = "undecodable",
                              !.result = ErrorResult(DecodeErrorMsg, x.t2,
                                                     timeout_occurred,
                                                     r.container, cmd)]
               ELSE [d EXCEPT !.reply = "ok",
                              !.result = ExecutionResult(
                                  Decode(x.out), Decode(x.err), x.exit_code,
                                  execution_time, timeout_occurred,
                                  ContainerId(r.container), Join(cmd))]

\* Sandbox.execute_file: env.file is what open(filepath).read() does:
\* kind "missing" (FileNotFoundError), "error" (any other failure of the
\* open or the read) or "ok" with the text read.
FileError == "OSError"
FileReplies ==
    { [kind |-> "missing", text |-> ""], [kind |-> "error", text |-> ""],
      [kind |-> "ok", text |-> "print('hi')"] }
\* (variant) execute_file without its FileNotFoundError handler.
execute_file_nocatch(c, h, env, filepath, args, workdir, timeout) ==
    IF env.file.kind # "ok"
    THEN [Outcome(c, h) EXCEPT !.exc = FileError]
    ELSE execute(c, h, env, env.file.text, workdir, timeout)

\* (variant) execute_file that connects before it reads the file.
execute_file_connect_first(c, h, env, filepath, args, workdir, timeout) ==
    LET r == _connect(c, h, env) IN
    IF r.exc # NoExc THEN r
    ELSE IF env.file.kind = "missing"
    THEN [r EXCEPT
             !.hasResult = TRUE,
             !.result = ExecutionResult(
                 "", "File not found: " \o filepath, 1, 0, FALSE,
                 ContainerId(r.container), "python3 " \o filepath)]
    ELSE IF env.file.kind = "error"
    THEN [r EXCEPT !.exc = FileError]
    ELSE execute(c, h, env, env.file.text, workdir, timeout)

\* (variant) execute_file that appends args to the command it dispatches.
execute_file_pass_args(c, h, env, filepath, args, workdir, timeout) ==
    IF env.file.kind = "missing"
    THEN [Outcome(c, h) EXCEPT
             !.hasResult = TRUE,
             !.result = ExecutionResult(
                 "", "File not found: " \o filepath, 1, 0, FALSE,
                 IF h # 0 THEN ContainerId(h) ELSE "",
                 "python3 " \o filepath)]
    ELSE IF env.file.kind = "error"
    THEN [Outcome(c, h) EXCEPT !.exc = FileError]
    ELSE LET e == execute(c, h, env, env.file.text, workdir, timeout)
         IN IF args = None \/ e.used = 0 THEN e
            ELSE [e EXCEPT !.cmd = @ \o args[1]]

execute_file(c, h, env, filepath, args, workdir, timeout) ==
    IF env.file.kind = "missing"
    THEN [Outcome(c, h) EXCEPT
             !.hasResult = TRUE,
             !.result = ExecutionResult(
                 "", "File not found: " \o filepath, 1, 0, FALSE,
                 IF h # 0 THEN ContainerId(h) ELSE "",
                 "python3 " \o filepath)]
    ELSE IF env.file.kind = "error"
    THEN [Outcome(c, h) EXCEPT !.exc = FileError]
    ELSE execute(c, h, env, env.file.text, workdir, timeout)

\* `"health_check" in s` for the texts of the model.
HasMarker(s) == s \in {HealthOut, "health_check"}

\* Sandbox.is_healthy
HealthCode == "print('health_check')"
HealthTimeout == 5
is_healthy(c, h, env) ==
    LET r == _connect(c, h, env) IN
    IF r.exc # NoExc
    THEN [r EXCEPT !.exc = NoExc, !.hasRet = TRUE, !.ret = FALSE]
    ELSE LET e == Then(r, execute(r.client, r.container, env, HealthCode,
                                  None, Some(HealthTimeout)))
         IN IF e.exc # NoExc
            THEN [e EXCEPT !.exc = NoExc, !.hasRet = TRUE, !.ret = FALSE]
            ELSE [e EXCEPT !.hasRet = TRUE,
                           !.ret = success(e.result)
                                   /\ HasMarker(e.result.stdout)]

\* Sandbox.get_container_info: env.attrs is "KeyError" when the attributes
\* the runtime reported lack one of the keys read.
AttrsName == "/sandbox"
get_container_info(c, h, env) ==
    LET r == _connect(c, h, env) IN
    IF r.exc # NoExc THEN r
    ELSE LET d == [r EXCEPT !.calls = Append(r.calls, "attrs"),
                            !.used = r.container]
         IN IF env.attrs = "KeyError"
            THEN [d EXCEPT !.exc = "KeyError"]
            ELSE [d EXCEPT !.hasInfo = TRUE,
                           !.info = ContainerInfo(
                               ContainerId(r.container),
                               LstripSlash(AttrsName), "python:3.11-slim",
                               "running", "2024-01-01T00:00:00Z")]

\* (variant) close drops the client without closing it.
close_drop(c, h) ==
    [Outcome(0, 0) EXCEPT !.closeCalled = TRUE]

\* (variant) close releases the client but keeps the container handle.
close_keep_handle(c, h) ==
    IF c # 0
    THEN [Outcome(0, h) EXCEPT !.calls = <<"client.close">>,
                               !.closed = {c}, !.closeCalled = TRUE]
    ELSE [Outcome(c, h) EXCEPT !.closeCalled = TRUE]

\* Sandbox.close
close(c, h) ==
    IF c # 0
    THEN [Outcome(0, 0) EXCEPT !.calls = <<"client.close">>,
                               !.closed = {c}, !.closeCalled = TRUE]
    ELSE [Outcome(c, 0) EXCEPT !.closeCalled = TRUE]

\* (variant) a close whose client.close() raised clears the fields anyway.
close_raises_drop(c, h, released) ==
    [Outcome(0, 0) EXCEPT !.calls = <<"client.close">>,
                          !.exc = RawError,
                          !.closed = IF released THEN {c} ELSE {},
                          !.closeCalled = TRUE]

\* Sandbox.close when self._client.close() raises: the two assignments
\* after it are not reached.  Whether the runtime released the client
\* before raising is not known to the session.
close_raises(c, h, released) ==
    [Outcome(c, h) EXCEPT !.calls = <<"client.close">>,
                          !.exc = RawError,
                          !.closed = IF released THEN {c} ELSE {},
                          !.closeCalled = TRUE]

(* ------------------------------ inputs -------------------------------- *)
Given(workdir_, timeout_, shell_, args_) ==
    [workdir |-> workdir_, timeout |-> timeout_, shell |-> shell_,
     args |-> args_]
NoGiven == Given(None, None, None, None)

\* Per-call overrides tried: none, each one alone (a falsy and a truthy
\* value), and all together.
ExecuteArgs ==
    { NoGiven,
      Given(Some(""), Some(0), None, None),
      Given(Some("/tmp"), Some(2), None, None),
      Given(None, Some(-1), None, None) }
ShellArgs ==
    { NoGiven,
      Given(Some(""), Some(0), Some(""), None),
      Given(Some("/tmp"), Some(2), Some("/bin/sh"), None),
      Given(None, Some(-1), None, None) }
FileArgs ==
    { NoGiven, Given(None, None, None, Some(<<"-v">>)),
      Given(Some("/tmp"), Some(2), None, Some(<<"-v">>)) }
Code == "print('hi')"
FilePath == "main.py"
FileOk == [kind |-> "ok", text |-> Code]
NoEnv == Env("ok", "ok", NoReply, "ok", FileOk)

\* What the runtime can do to a call made on a session holding client c
\* and handle h: from_env is only consulted when c is None, containers.get
\* only when from_env did not fail and h is None, and the rest (exec_run
\* or the attrs read) only when both succeeded.
ConnEnvs(c, h, rest, ars) ==
    { e \in { Env(fe, ge, xr, ar, FileOk) :
                fe \in FromEnvReplies, ge \in GetReplies,
                xr \in rest \cup {NoReply}, ar \in ars } :
        /\ (c # 0 => e.from_env = "ok")
        /\ (h # 0 \/ e.from_env = "fail" => e.get = "ok")
        /\ IF e.from_env = "ok" /\ e.get = "ok"
           THEN e.exec \in rest \/ rest = {}
           ELSE e.exec = NoReply /\ e.attrs = "ok" }

(* ------------------------------ actions ------------------------------- *)
Init ==
    /\ config \in Configs
    /\ client = 0
    /\ container = 0
    /\ open = {}
    /\ clientSeq = MaxClients
    /\ handleSeq = MaxHandles
    /\ handleStale = FALSE
    /\ acqSinceClose = 0
    /\ lookSinceClose = 0
    /\ scope = "outside"
    /\ last = [op |-> "init", given |-> NoGiven, env |-> NoEnv,
               pre |-> [client |-> 0, container |-> 0, open |-> {}],
               staleUse |-> FALSE, out |-> Outcome(0, 0)]
    /\ threads = [t \in Callers |-> Idle]

\* The state after a call of operation op with outcome r.
Apply(op, given, env, r, scope_) ==
    /\ client' = r.client
    /\ container' = r.container
    /\ open' = (open \cup (IF r.acquired THEN {r.client} ELSE {})) \ r.closed
    /\ clientSeq' = IF r.acquired THEN r.client ELSE clientSeq
    /\ handleSeq' = IF r.resolved THEN r.container ELSE handleSeq
    /\ handleStale' = IF r.resolved THEN FALSE
                      ELSE IF r.closeCalled THEN r.container # 0
                      ELSE handleStale
    /\ acqSinceClose' = IF r.closeCalled THEN 0
                        ELSE IF r.acquired
                        THEN Min(acqSinceClose + 1, MaxCount)
                        ELSE acqSinceClose
    /\ lookSinceClose' = IF r.closeCalled THEN 0
                         ELSE IF r.resolved
                         THEN Min(lookSinceClose + 1, MaxCount)
                         ELSE lookSinceClose
    /\ scope' = scope_
    /\ last' = [op |-> op, given |-> given, env |-> env,
                pre |-> [client |-> client, container |-> container,
                         open |-> open],
                staleUse |-> r.used # 0 /\ ~r.resolved /\ handleStale,
                out |-> r]
    /\ UNCHANGED threads
    /\ UNCHANGED config

\* A call made outside a with-block ends the "just left" moment.
After == IF scope = "left" THEN "outside" ELSE scope

Connect ==
    \E env \in ConnEnvs(client, container, {}, {"ok"}) :
    \E r \in { _connect(client, container, env) } :
        Apply("connect", NoGiven, env, r, After)

Execute ==
    \E env \in ConnEnvs(client, container, ExecReplies, {"ok"}) :
    \E g \in ExecuteArgs :
    \E r \in { execute(client, container, env, Code, g.workdir, g.timeout) } :
        Apply("execute", g, env, r, After)

ExecuteShell ==
    \E env \in ConnEnvs(client, container, ExecReplies, {"ok"}) :
    \E g \in ShellArgs :
    \E r \in { execute_shell(client, container, env, "ls", g.workdir,
                             g.timeout, g.shell) } :
        Apply("execute_shell", g, env, r, After)

ExecuteFile ==
    \E f \in FileReplies :
    \E env \in IF f.kind = "ok"
               THEN ConnEnvs(client, container, ExecReplies, {"ok"})
               ELSE { [NoEnv EXCEPT !.file = f] } :
    \E g \in FileArgs :
    \E r \in { execute_file(client, container, env, FilePath, g.args,
                            g.workdir, g.timeout) } :
        Apply("execute_file", g, env, r, After)

\* The probe is also tried with a reply slower than its fixed timeout.
HealthReplies == ExecRepliesAt(Elapsed \cup {HealthTimeout + 1})
IsHealthy ==
    \E env \in ConnEnvs(client, container, HealthReplies, {"ok"}) :
    \E r \in { is_healthy(client, container, env) } :
        Apply("is_healthy", NoGiven, env, r, After)

GetContainerInfo ==
    \E env \in ConnEnvs(client, container, {}, AttrsReplies) :
    \E r \in { get_container_info(client, container, env) } :
        Apply("get_container_info", NoGiven, env, r, After)

Close ==
    \E r \in { close(client, container) } :
        Apply("close", NoGiven, NoEnv, r, After)

\* `with sandbox:` entry.  When _connect raises, the with statement is left
\* at once and __exit__ is not run.
__enter__ ==
    /\ scope # "inside"
    /\ \E env \in ConnEnvs(client, container, {}, {"ok"}) :
       \E r \in { _connect(client, container, env) } :
           Apply("__enter__", NoGiven, env, r,
                 IF r.exc = NoExc THEN "inside" ELSE "left")

\* `with sandbox:` exit, by normal completion of the body (exc_type None)
\* or by an exception raised in it.
__exit__ ==
    /\ scope = "inside"
    /\ \E exc_type \in {None, Some(RawError)} :
       \E r \in { close(client, container) } :
           Apply("__exit__", NoGiven, NoEnv, r, "left")

Next ==
    \/ Connect
    \/ Execute
    \/ ExecuteShell
    \/ ExecuteFile
    \/ IsHealthy
    \/ GetContainerInfo
    \/ Close
    \/ __enter__
    \/ __exit__

Spec == Init /\ [][Next]_vars

(* ------------------ the result model on its own ----------------------- *)
\* ExecutionResult objects with every combination of the four fields the
\* two properties read.
ResultExitCodes == {0, 1, 2, 137, -1}
ResultStdouts == {"", "out", "Traceback"}
ResultStderrs == {"", "err"}
Results ==
    { ExecutionResult(o, e, x, 0, t, "cid-1", "python3 -c " \o Code) :
        o \in ResultStdouts, e \in ResultStderrs,
        x \in ResultExitCodes, t \in BOOLEAN }

\* The session fields of a freshly constructed Sandbox.
Constructed ==
    /\ config \in Configs
    /\ client = 0
    /\ container = 0
    /\ open = {}
    /\ clientSeq = MaxClients
    /\ handleSeq = MaxHandles
    /\ handleStale = FALSE
    /\ acqSinceClose = 0
    /\ lookSinceClose = 0
    /\ scope = "outside"
    /\ threads = [t \in Callers |-> Idle]

session == <<config, client, container, open, clientSeq, handleSeq,
             handleStale, acqSinceClose, lookSinceClose, scope, threads>>

InitModels ==
    /\ Constructed
    /\ \E res \in Results : last = [op |-> "ExecutionResult", res |-> res]

\* The caller reads result.success and result.return_value.
ReadProperties ==
    /\ last.op = "ExecutionResult"
    /\ last' = [op |-> "return_value", res |-> last.res,
                success |-> success(last.res),
                return_value |-> return_value(last.res)]
    /\ UNCHANGED session

NextModels == ReadProperties

SpecModels == InitModels /\ [][NextModels]_vars

(* ------------------ the configuration on its own --------------------- *)
ContainerInputs == {None, Some("sandbox"), Some("web")}
WorkdirInputs == {None, Some("/tmp")}
TimeoutInputs == {None, Some(-1), Some(0), Some(1), Some(30), Some(3600), Some(3601)}
ShellInputs == {None, Some("/bin/sh")}
Assignments ==
    { <<"container", "web">>, <<"workdir", "/tmp">>, <<"shell", "/bin/sh">>,
      <<"timeout", 0>>, <<"timeout", 1>>, <<"timeout", 3600>> }

InitConfig ==
    /\ Constructed
    /\ last = [op |-> "init", pre |-> [config |-> config]]

\* The caller builds a configuration; on failure it keeps the one it had.
Construct ==
    \E c \in ContainerInputs, w \in WorkdirInputs,
       t \in TimeoutInputs, sh \in ShellInputs :
        LET r == NewSandboxConfig(c, w, t, sh) IN
        /\ config' = IF r.exc = NoExc THEN r.config ELSE config
        /\ last' = [op |-> "SandboxConfig",
                    given |-> [container |-> c, workdir |-> w,
                               timeout |-> t, shell |-> sh],
                    pre |-> [config |-> config],
                    exc |-> r.exc, built |-> r.config]
        /\ UNCHANGED <<client, container, open, clientSeq, handleSeq,
                       handleStale, acqSinceClose, lookSinceClose, scope,
                       threads>>

\* The caller assigns to a field of the configuration it holds.
Assign ==
    \E a \in Assignments :
        LET r == __setattr__(config, a[1], a[2]) IN
        /\ config' = r.config
        /\ last' = [op |-> "__setattr__",
                    given |-> [field |-> a[1], value |-> a[2]],
                    pre |-> [config |-> config],
                    exc |-> r.exc]
        /\ UNCHANGED <<client, container, open, clientSeq, handleSeq,
                       handleStale, acqSinceClose, lookSinceClose, scope,
                       threads>>

NextConfig == Construct \/ Assign

SpecConfig == InitConfig /\ [][NextConfig]_vars

(* -------------------- a client whose close may fail ------------------- *)
CloseRaises ==
    /\ client # 0
    /\ \E released \in BOOLEAN :
       \E r \in { close_raises(client, container, released) } :
           Apply("close", NoGiven, NoEnv, r, After)

\* __exit__ lets the exception of close() through.
ExitRaises ==
    /\ scope = "inside"
    /\ client # 0
    /\ \E released \in BOOLEAN :
       \E r \in { close_raises(client, container, released) } :
           Apply("__exit__", NoGiven, NoEnv, r, "left")

\* The execute family and the health probe called with no per-call
\* argument, the dispatch either raising or returning exit code 0 with
\* empty streams.
PlainReplies ==
    { x \in ExecRepliesAt({0}) :
        \/ x.kind = "raise"
        \/ x.kind = "ok" /\ x.exit_code = 0 /\ x.out = None /\ x.err = None }

ExecutePlain ==
    \E env \in ConnEnvs(client, container, PlainReplies, {"ok"}) :
    \E r \in { execute(client, container, env, Code, None, None) } :
        Apply("execute", NoGiven, env, r, After)

ExecuteShellPlain ==
    \E env \in ConnEnvs(client, container, PlainReplies, {"ok"}) :
    \E r \in { execute_shell(client, container, env, "ls", None, None,
                             None) } :
        Apply("execute_shell", NoGiven, env, r, After)

ExecuteFilePlain ==
    \E f \in FileReplies :
    \E env \in IF f.kind = "ok"
               THEN ConnEnvs(client, container, PlainReplies, {"ok"})
               ELSE { [NoEnv EXCEPT !.file = f] } :
    \E r \in { execute_file(client, container, env, FilePath, None, None,
                            None) } :
        Apply("execute_file", NoGiven, env, r, After)

IsHealthyPlain ==
    \E env \in ConnEnvs(client, container, PlainReplies, {"ok"}) :
    \E r \in { is_healthy(client, container, env) } :
        Apply("is_healthy", NoGiven, env, r, After)

NextCloseFails ==
    \/ Connect
    \/ ExecutePlain
    \/ ExecuteShellPlain
    \/ ExecuteFilePlain
    \/ IsHealthyPlain
    \/ GetContainerInfo
    \/ Close
    \/ __enter__
    \/ __exit__
    \/ CloseRaises
    \/ ExitRaises

SpecCloseFails == Init /\ [][NextCloseFails]_vars

(* ------------- two callers inside execute() at once ------------------- *)
\* One caller's execute(), statement by statement; the other caller may
\* run between any two of them.  The session fields are read and written
\* where the statements read and write them.
ghosts == <<config, handleStale, acqSinceClose, lookSinceClose, scope, last>>

\* The caller enters execute() and with it _connect().
Call(t) ==
    /\ threads[t].pc = "idle"
    /\ last.op = "init"
    /\ threads' = [threads EXCEPT ![t].pc = "check_client"]
    /\ UNCHANGED <<client, container, open, clientSeq, handleSeq, ghosts>>

\* (variant) the test of line 43 sends every caller to from_env.
NextAfterCheckClient_always(c) == "from_env"

\* `if self._client is None:`
NextAfterCheckClient(c) == IF c = 0 THEN "from_env" ELSE "check_container"

CheckClient(t) ==
    /\ threads[t].pc = "check_client"
    /\ threads' = [threads EXCEPT ![t].pc = NextAfterCheckClient(client),
                                  ![t].found = (client # 0)]
    /\ UNCHANGED <<client, container, open, clientSeq, handleSeq, ghosts>>

\* docker.from_env() returns a new client, or raises.
FromEnv(t) ==
    /\ threads[t].pc = "from_env"
    /\ \E reply \in FromEnvReplies :
        IF reply = "ok"
        THEN /\ open' = open \cup {FreshClient}
             /\ clientSeq' = FreshClient
             /\ threads' = [threads EXCEPT ![t].pc = "store_client",
                                           ![t].tmp = FreshClient,
                                           ![t].acqs = @ + 1]
        ELSE /\ threads' = [threads EXCEPT
                               ![t].pc = "returned",
                               ![t].exc = ContainerConnectionError]
             /\ UNCHANGED <<open, clientSeq>>
    /\ UNCHANGED <<client, container, handleSeq, ghosts>>

\* `self._client = ...`
StoreClient(t) ==
    /\ threads[t].pc = "store_client"
    /\ client' = threads[t].tmp
    /\ threads' = [threads EXCEPT ![t].pc = "check_container", ![t].tmp = 0]
    /\ UNCHANGED <<container, open, clientSeq, handleSeq, ghosts>>

\* `if self._container is None:`
CheckContainer(t) ==
    /\ threads[t].pc = "check_container"
    /\ threads' = [threads EXCEPT
                      ![t].pc = IF container = 0 THEN "get" ELSE "exec_run"]
    /\ UNCHANGED <<client, container, open, clientSeq, handleSeq, ghosts>>

\* self._client.containers.get(...) returns a new handle, or raises.
ContainersGet(t) ==
    /\ threads[t].pc = "get"
    /\ \E reply \in GetReplies :
        IF reply = "ok"
        THEN /\ handleSeq' = FreshHandle
             /\ threads' = [threads EXCEPT ![t].pc = "store_container",
                                           ![t].tmp = FreshHandle,
                                           ![t].looks = @ + 1]
        ELSE /\ threads' = [threads EXCEPT ![t].pc = "returned",
                                           ![t].exc = LookupError(reply)]
             /\ UNCHANGED handleSeq
    /\ UNCHANGED <<client, container, open, clientSeq, ghosts>>

\* `self._container = ...`
StoreContainer(t) ==
    /\ threads[t].pc = "store_container"
    /\ container' = threads[t].tmp
    /\ threads' = [threads EXCEPT ![t].pc = "exec_run", ![t].tmp = 0]
    /\ UNCHANGED <<client, open, clientSeq, handleSeq, ghosts>>

\* self._container.exec_run(...) and the rest of execute(): the caller
\* gets a result whatever the dispatch does.
ExecRun(t) ==
    /\ threads[t].pc = "exec_run"
    /\ threads' = [threads EXCEPT ![t].pc = "returned"]
    /\ UNCHANGED <<client, container, open, clientSeq, handleSeq, ghosts>>

\* close(), called once both callers have returned.
CloseAfterBoth ==
    /\ \A t \in Callers : threads[t].pc = "returned"
    /\ last.op = "init"
    /\ \E r \in { close(client, container) } :
           Apply("close", NoGiven, NoEnv, r, After)

NextRace ==
    \/ \E t \in Callers : Call(t)
    \/ \E t \in Callers : CheckClient(t)
    \/ \E t \in Callers : FromEnv(t)
    \/ \E t \in Callers : StoreClient(t)
    \/ \E t \in Callers : CheckContainer(t)
    \/ \E t \in Callers : ContainersGet(t)
    \/ \E t \in Callers : StoreContainer(t)
    \/ \E t \in Callers : ExecRun(t)
    \/ CloseAfterBoth

SpecRace == Init /\ [][NextRace]_vars

TypeOK ==
    /\ client \in 0..MaxClients
    /\ container \in 0..MaxHandles
    /\ open \subseteq ClientIds
    /\ scope \in {"outside", "inside", "left"}

(* ------------------------------ claims -------------------------------- *)
ExecFamily == {"execute", "execute_shell", "execute_file"}
Dispatching == {"execute", "execute_shell"}
Connecting == {"connect", "__enter__"}

\* The runtime made the (implicit) connect of the last call fail.
ConnectFailed ==
    \/ last.pre.client = 0 /\ last.env.from_env = "fail"
    \/ last.pre.container = 0 /\ last.env.get # "ok"

\* The last call reached its connect (execute_file only after a good read).
ConnectAttempted ==
    last.op = "execute_file" => last.env.file.kind = "ok"

\* C1 (as stated): every execute, execute_shell and execute_file call, in
\* every session state and for every behaviour of the runtime and of the
\* file read, returns an ExecutionResult and never ends in an exception.
C1_AlwaysReturnsResult ==
    last.op \in ExecFamily => last.out.exc = NoExc /\ last.out.hasResult

\* C1 (amended): an execute-family call returns an ExecutionResult, whatever
\* the dispatch does, unless its implicit connect fails or the file read
\* fails otherwise than by file-not-found; in those two cases, and only in
\* them, the call ends in the exception and returns no result.
C1_ResultUnlessConnectOrReadFails ==
    last.op \in ExecFamily =>
        IF \/ ConnectAttempted /\ ConnectFailed
           \/ last.op = "execute_file" /\ last.env.file.kind = "error"
        THEN last.out.exc # NoExc /\ ~last.out.hasResult
        ELSE last.out.exc = NoExc /\ last.out.hasResult

C1_Witness ==
    /\ last.op = "execute_file"
    /\ last.env.file.kind = "missing"
    /\ last.out.exc = NoExc
    /\ last.out.hasResult
    /\ last.pre.client # 0

\* C2: when the dispatch raises on a Connected session, execute and
\* execute_shell return a result with exit_code -1, stdout "" and stderr
\* the exception's message, and the session keeps its client and handle.
C2_DispatchErrorRecovered ==
    /\ last.op \in Dispatching
    /\ last.pre.client # 0
    /\ last.pre.container # 0
    /\ last.env.exec.kind = "raise"
    => /\ last.out.exc = NoExc
       /\ last.out.hasResult
       /\ last.out.result.exit_code = -1
       /\ last.out.result.stdout = ""
       /\ last.out.result.stderr = last.env.exec.msg
       /\ client = last.pre.client
       /\ container = last.pre.container
       /\ open = last.pre.open

C2_Witness ==
    /\ last.op = "execute_shell"
    /\ last.pre.client # 0
    /\ last.pre.container # 0
    /\ last.env.exec.kind = "raise"
    /\ last.out.result.exit_code = -1
    /\ client = last.pre.client

\* C3: for every result of execute or execute_shell, on the successful
\* path and on the exception path alike, timeout_occurred holds iff
\* execution_time is strictly greater than the effective timeout.
C3_TimeoutIffExceeded ==
    last.op \in Dispatching /\ last.out.hasResult =>
        (last.out.result.timeout_occurred
            <=> last.out.result.execution_time > last.out.eff.timeout)

\* C4: the effective timeout, workdir and shell equal the per-call argument
\* whenever one is supplied (0 and "" included) and the configured value
\* exactly when it is omitted.
C4_SuppliedArgumentWins ==
    last.op \in Dispatching /\ last.out.hasEff =>
        /\ last.out.eff.timeout =
              IF last.given.timeout # None THEN last.given.timeout[1]
              ELSE config.timeout
        /\ last.out.eff.workdir =
              IF last.given.workdir # None THEN last.given.workdir[1]
              ELSE config.workdir
        /\ last.op = "execute_shell" =>
              last.out.eff.shell =
                  IF last.given.shell # None THEN last.given.shell[1]
                  ELSE config.shell

\* C5: after any sequence of calls the session holds both a client and a
\* container handle or neither; a failed connect leaves it holding neither.
C5_BothOrNeither ==
    /\ (client # 0) <=> (container # 0)
    /\ last.op \in Connecting /\ last.out.exc # NoExc =>
           client = 0 /\ container = 0

\* C6: whenever control has left the with-block (normally, by an exception
\* in the body, or by a failed entry connect) every client acquired has
\* been closed and the session holds no client and no handle.
C6_ScopeReleasesAll ==
    scope = "left" => client = 0 /\ container = 0 /\ open = {}

\* C7: close() in any state leaves no client and no handle and closes the
\* client it held exactly once; a close() right after a close() issues no
\* runtime call, changes nothing and does not raise.
C7_CloseState ==
    last.op = "close" =>
        /\ client = 0
        /\ container = 0
        /\ last.out.exc = NoExc
        /\ IF last.pre.client # 0
           THEN /\ last.out.calls = <<"client.close">>
                /\ last.out.closed = {last.pre.client}
                /\ open = last.pre.open \ {last.pre.client}
           ELSE /\ last.out.calls = << >>
                /\ open = last.pre.open
C7_SecondClose ==
    last.op = "close" /\ last'.op = "close" =>
        /\ last'.out.calls = << >>
        /\ last'.out.exc = NoExc
        /\ UNCHANGED <<client, container, open, clientSeq, handleSeq>>
C7_CloseIdempotent == []C7_CloseState /\ [][C7_SecondClose]_vars

C7_Witness ==
    /\ last.op = "close"
    /\ last.pre.client # 0
    /\ last.pre.container # 0
    /\ last.out.calls = <<"client.close">>
    /\ open = {}

\* C8: connect() on a Connected session acquires nothing, looks nothing up
\* and changes neither field; so between two close() calls the runtime
\* sees at most one successful acquisition and one successful lookup.
C8_ConnectIdempotent ==
    /\ last.op \in Connecting /\ last.pre.client # 0 /\ last.pre.container # 0
       => /\ last.out.calls = << >>
          /\ last.out.exc = NoExc
          /\ client = last.pre.client
          /\ container = last.pre.container
    /\ acqSinceClose <= 1
    /\ lookSinceClose <= 1

C8_Witness ==
    /\ last.op = "connect"
    /\ last.pre.client # 0
    /\ last.pre.container # 0
    /\ acqSinceClose = 1
    /\ lookSinceClose = 1

\* C9: a command is dispatched (or the attributes read) only on the handle
\* the session holds, resolved after the most recent close(); a dispatching
\* call on a session without connection first acquires a client and looks
\* the container up afresh.
C9_DispatchOnFreshHandle ==
    last.out.used # 0 =>
        /\ ~last.staleUse
        /\ last.out.used = container
        /\ ~handleStale
        /\ last.pre.container = 0 => last.out.resolved
        /\ last.pre.client = 0 /\ last.pre.container = 0 =>
               /\ Len(last.out.calls) = 3
               /\ SubSeq(last.out.calls, 1, 2) = <<"from_env", "containers.get">>

\* a dispatch on the second client the runtime handed out: the first one
\* was closed in between.
C9_Witness ==
    /\ last.op \in {"execute", "get_container_info"}
    /\ last.out.used # 0
    /\ last.pre.client = 0
    /\ last.out.acquired
    /\ client # 1
    /\ last.out.resolved

\* C10: every failure of connect() and of get_container_info() reaches the
\* caller as ContainerConnectionError or ContainerNotFoundError (not-found
\* lookups as the latter, every other failure as the former).
C10_OnlyTypedErrors ==
    last.op \in Connecting \cup {"get_container_info"}
    /\ last.out.exc # NoExc =>
        /\ last.out.exc \in TypedErrors
        /\ last.out.exc = ContainerNotFoundError
              <=> (last.pre.client # 0 \/ last.env.from_env = "ok")
                  /\ last.pre.container = 0 /\ last.env.get = "NotFound"


\* C11: is_healthy() never raises; it returns false whenever connect or the
\* probe fails (in particular on ContainerNotFoundError) and true iff the
\* probe has exit_code 0, took no longer than the 5-second timeout and its
\* stdout contains the marker.
C11_HealthIsTotal ==
    last.op = "is_healthy" =>
        /\ last.out.exc = NoExc
        /\ last.out.hasRet
        /\ ConnectFailed => ~last.out.ret /\ ~last.out.hasResult
        /\ ~ConnectFailed => last.out.hasResult
        /\ last.out.ret <=>
              /\ last.out.hasResult
              /\ last.out.result.exit_code = 0
              /\ last.out.result.execution_time <= HealthTimeout
              /\ HasMarker(last.out.result.stdout)

C11_Witness ==
    /\ last.op = "is_healthy"
    /\ last.pre.container = 0
    /\ last.env.get = "NotFound"
    /\ last.out.exc = NoExc
    /\ last.out.hasRet
    /\ ~last.out.ret

\* C12: execute_file on a path that does not exist returns exit_code 1,
\* stderr "File not found: {filepath}", stdout "", execution_time 0.0 and
\* timeout_occurred false, issues no runtime call and leaves the session
\* as it was, in every session state.
C12_MissingFileIsLocal ==
    last.op = "execute_file" /\ last.env.file.kind = "missing" =>
        /\ last.out.exc = NoExc
        /\ last.out.hasResult
        /\ last.out.result.exit_code = 1
        /\ last.out.result.stderr = "File not found: main.py"
        /\ last.out.result.stdout = ""
        /\ last.out.result.execution_time = 0
        /\ ~last.out.result.timeout_occurred
        /\ last.out.calls = << >>
        /\ client = last.pre.client
        /\ container = last.pre.container
        /\ open = last.pre.open
        /\ ~last.out.acquired /\ ~last.out.resolved

C12_Witness ==
    /\ last.op = "execute_file"
    /\ last.env.file.kind = "missing"
    /\ last.out.result.exit_code = 1
    /\ last.pre.client = 0
    /\ client = 0

\* C13: for every combination of exit_code, timeout_occurred, stdout and
\* stderr, success is (exit_code = 0 and not timeout_occurred), and
\* return_value is OUTPUT/stdout if success and stdout is non-empty,
\* otherwise ERROR/stderr if stderr is non-empty, otherwise
\* ERROR/"Command failed with exit code {exit_code}" if not success,
\* otherwise OUTPUT/"".
C13_FourWayRule ==
    last.op = "return_value" =>
        LET r == last.res
            ok == r.exit_code = 0 /\ r.timeout_occurred = FALSE
            rule == CASE ok /\ r.stdout # "" -> <<"output", r.stdout>>
                      [] ~(ok /\ r.stdout # "") /\ r.stderr # "" ->
                             <<"error", r.stderr>>
                      [] r.stdout = "" /\ r.stderr = "" /\ ok ->
                             <<"output", "">>
                      [] OTHER ->
                             <<"error", "Command failed with exit code "
                                          \o ToString(r.exit_code)>>
        IN /\ last.success = ok
           /\ last.return_value.type = rule[1]
           /\ last.return_value.content = rule[2]

C13_Witness ==
    /\ last.op = "return_value"
    /\ last.res.exit_code = -1
    /\ last.res.stdout # ""
    /\ last.res.stderr = ""
    /\ ~last.success
    /\ last.return_value = ResultValue(ERROR, "Command failed with exit code -1")

\* Number of times the runtime call `name` occurs in the sequence `calls`.
Count(calls, name) ==
    Cardinality({ i \in 1..Len(calls) : calls[i] = name })

\* C14: whatever the runtime replies, one call of execute, execute_shell,
\* execute_file or is_healthy dispatches at most one command, and one
\* connect (explicit or implicit) acquires at most one client and looks
\* the container up at most once; a failed step is not retried.
C14_SingleAttempt ==
    last.op \in ExecFamily \cup Connecting \cup {"is_healthy"} =>
        /\ Count(last.out.calls, "exec_run") <= 1
        /\ Count(last.out.calls, "from_env") <= 1
        /\ Count(last.out.calls, "containers.get") <= 1
        /\ last.op \in Connecting => Count(last.out.calls, "exec_run") = 0
        /\ ConnectFailed => Count(last.out.calls, "exec_run") = 0
        /\ last.pre.client # 0 => Count(last.out.calls, "from_env") = 0
        /\ last.pre.container # 0 =>
               Count(last.out.calls, "containers.get") = 0

C14_Witness ==
    /\ last.op = "is_healthy"
    /\ last.pre.client = 0
    /\ last.env.exec.kind = "raise"
    /\ last.out.calls = <<"from_env", "containers.get", "exec_run">>

\* C20: return_value.type is OUTPUT only if the result is a success: a
\* result with a non-zero exit code, with the -1 sentinel, or with
\* timeout_occurred and exit code 0 classifies as ERROR whatever its
\* stdout and stderr hold.
C20_OutputOnlyIfSuccess ==
    last.op = "return_value" =>
        /\ last.return_value.type = OUTPUT =>
               last.res.exit_code = 0 /\ ~last.res.timeout_occurred
        /\ last.res.exit_code # 0 \/ last.res.timeout_occurred =>
               last.return_value.type = ERROR

C20_Witness ==
    /\ last.op = "return_value"
    /\ last.res.exit_code = 0
    /\ last.res.timeout_occurred
    /\ last.res.stdout # ""
    /\ last.res.stderr = ""
    /\ last.return_value.type = ERROR

\* C15: construction of a configuration (a container being given)
\* succeeds exactly when timeout is omitted or lies in [1, 3600]: 0 and
\* 3601 are rejected, 1 and 3600 accepted, 30 is used when omitted; and
\* every re-assignment of a field of a constructed configuration fails
\* and leaves all four fields unchanged.
C15_ConfigValidatedAndFrozen ==
    /\ last.op = "SandboxConfig" /\ last.given.container # None =>
           /\ last.exc = NoExc <=>
                  \/ last.given.timeout = None
                  \/ last.given.timeout[1] \in 1..3600
           /\ last.given.timeout \in {Some(0), Some(3601)} =>
                  last.exc = ValidationError /\ config = last.pre.config
           /\ last.given.timeout \in {Some(1), Some(3600)} =>
                  last.exc = NoExc /\ config.timeout = last.given.timeout[1]
           /\ last.given.timeout = None =>
                  last.exc = NoExc /\ config.timeout = 30
    /\ last.op = "__setattr__" =>
           /\ last.exc # NoExc
           /\ config.container = last.pre.config.container
           /\ config.workdir = last.pre.config.workdir
           /\ config.timeout = last.pre.config.timeout
           /\ config.shell = last.pre.config.shell
    /\ config.timeout \in 1..3600

C15_Witness ==
    /\ last.op = "__setattr__"
    /\ last.given.field = "timeout"
    /\ last.given.value = 1
    /\ last.exc # NoExc
    /\ config.timeout = 3600

\* C16: execute_shell has the contract of execute: in the same session
\* state, with the same runtime replies and elapsed time, it raises or
\* returns as execute does, with equal stdout, stderr, exit_code,
\* timeout_occurred and container_id, and differs only in the command it
\* dispatches: [shell, "-c", command], shell being the per-call override
\* when one is supplied and the configured shell otherwise, against
\* ["python3", "-c", code].
C16_ShellSameContractAsExecute ==
    [][last'.op = "execute_shell" =>
         LET g == last'.given
             e == execute(client, container, last'.env, Code,
                          g.workdir, g.timeout)
             sh == last'.out
         IN /\ sh.exc = e.exc
            /\ sh.hasResult = e.hasResult
            /\ sh.client = e.client
            /\ sh.container = e.container
            /\ sh.calls = e.calls
            /\ sh.hasResult =>
                   /\ sh.result.stdout = e.result.stdout
                   /\ sh.result.stderr = e.result.stderr
                   /\ sh.result.exit_code = e.result.exit_code
                   /\ sh.result.timeout_occurred = e.result.timeout_occurred
                   /\ sh.result.container_id = e.result.container_id
            /\ sh.used # 0 =>
                   /\ e.cmd = <<"python3", "-c", Code>>
                   /\ sh.cmd = <<IF g.shell # None THEN g.shell[1]
                                 ELSE config.shell, "-c", "ls">>]_vars

\* C17: for a file that exists and is readable, execute_file(filepath,
\* args, workdir, timeout) dispatches the command and returns the result
\* of execute(contents, workdir=workdir, timeout=timeout), for every
\* value of args.
C17_FileDelegatesToExecute ==
    [][last'.op = "execute_file" /\ last'.env.file.kind = "ok" =>
         /\ last'.out = execute(client, container, last'.env,
                                last'.env.file.text, last'.given.workdir,
                                last'.given.timeout)
         /\ last'.out.used # 0 =>
                last'.out.cmd = <<"python3", "-c", last'.env.file.text>>]_vars

C17_Witness ==
    /\ last.op = "execute_file"
    /\ last.env.file.kind = "ok"
    /\ last.given.args = Some(<<"-v">>)
    /\ last.given.timeout = Some(2)
    /\ last.out.hasResult
    /\ last.out.reply = "ok"
    /\ last.out.cmd = <<"python3", "-c", "print('hi')">>

\* C18: under single-caller use, after any sequence of calls with the
\* runtime free to fail at any step, the client's own close included, at
\* most one acquired client is unclosed and it is the one the session
\* holds: the session never drops a client it has not closed and never
\* acquires a second one while holding one.
C18_OnlyHeldClientOpen ==
    /\ Cardinality(open) <= 1
    /\ \A k \in open : k = client
    /\ last.op # "init" /\ last.pre.client # 0 =>
           /\ ~last.out.acquired
           /\ client # last.pre.client =>
                  client = 0 /\ last.pre.client \in last.out.closed

C18_Witness ==
    /\ last.op = "close"
    /\ last.out.exc = RawError
    /\ last.out.closed = {}
    /\ client # 0
    /\ open = {client}

\* Both callers have returned from execute().
BothReturned == \A t \in Callers : threads[t].pc = "returned"

\* C19 (as stated): when two callers run execute concurrently on the same
\* Unconnected session, in any interleaving, the session acquires at most
\* one client and resolves the container at most once in total, and a
\* close() after both have returned leaves no acquired client unclosed.
C19_OneClientForBoth ==
    /\ threads[1].acqs + threads[2].acqs <= 1
    /\ threads[1].looks + threads[2].looks <= 1
    /\ BothReturned /\ last.op = "close" => open = {}

\* C19 (amended): each of the two callers acquires at most one client,
\* and none when it finds the session holding one, and resolves the
\* container at most once, so up to two of each in total; close() after
\* both have returned clears both fields and closes the client the
\* session holds, leaving one acquired client unclosed exactly when both
\* callers acquired one.
C19_OnePerCaller ==
    /\ \A t \in Callers : threads[t].acqs <= 1 /\ threads[t].looks <= 1
    /\ \A t \in Callers : threads[t].found => threads[t].acqs = 0
    /\ Cardinality(open) <= threads[1].acqs + threads[2].acqs
    /\ \A k \in open :
           k = client \/ \E t \in Callers : threads[t].tmp = k
                      \/ threads[1].acqs + threads[2].acqs = 2
    /\ BothReturned /\ last.op = "close" =>
           /\ client = 0
           /\ container = 0
           /\ Cardinality(open) <= 1
           /\ open # {} <=> threads[1].acqs + threads[2].acqs = 2

C19_Witness ==
    /\ BothReturned
    /\ last.op = "close"
    /\ threads[1].acqs = 1
    /\ threads[2].acqs = 1
    /\ Cardinality(open) = 1

====
